---- MODULE Spec2Model ----
(***************************************************************************)
(* Model of checkov's graph Block                                          *)
(* (checkov/common/graph/graph_builder/graph_components/blocks.py):        *)
(* construction with attribute flattening, update_attribute with its       *)
(* breadcrumb chain, and get_attribute_dict / get_hash.                    *)
(*                                                                         *)
(* Representation.                                                         *)
(*  - A Python str is a sequence of atoms.  The atom "." is the dot        *)
(*    character; every other atom stands for a non-empty dot-free piece of *)
(*    text.  Formatting f"{k}.{x}" is concatenation with a dot atom, and   *)
(*    str.split(".") cuts at dot atoms, so a map key that itself holds a   *)
(*    dot splits into several segments, as in Python.                      *)
(*  - A Python dict is a sequence of <<key, value>> pairs with distinct    *)
(*    keys, in insertion order.  Python's == on dicts ignores the order:   *)
(*    that is PyEq / DictEq below.                                         *)
(*  - A value is Str(s), List(l) or Map(kv).                               *)
(*  - Containers are carried by value.  The only in-place mutation in the  *)
(*    source is get_inner_attributes' `del attribute_value[key]`; the      *)
(*    actions write the mutated argument back to the attribute entry it    *)
(*    was read from.  get_attribute_dict visits every entry but "self",   *)
(*    so objects shared between entries end in the same state either way;  *)
(*    the inputs keep containers with an empty key away from "self".       *)
(*  - The breadcrumb lists passed to update_attribute are shared objects:  *)
(*    `chains` is the heap of these lists and changed_attributes holds     *)
(*    references into it.                                                  *)
(***************************************************************************)
EXTENDS Integers, Sequences, FiniteSets, TLC

VARIABLES
    pc,                 \* "new": __init__ not run yet; "ready": constructed
    block_type,         \* self.block_type
    config,             \* self.config
    attributes,         \* self.attributes (dict)
    changed_attributes, \* self.changed_attributes: key -> reference into chains
    breadcrumbs,        \* self.breadcrumbs (dict)
    chains,             \* the caller's previous_breadcrumbs lists
    ret,                \* what the last call returned
    last,               \* the last call and its arguments
    steps,              \* calls made after construction
    fl                  \* the codec on its own: input and result of get_inner_attributes

vars == <<pc, block_type, config, attributes, changed_attributes, breadcrumbs,
          chains, ret, last, steps, fl>>

-----------------------------------------------------------------------------
(* Bounds *)

MaxSteps == 2
MaxListLen == 2
MaxMapLen == 2
NumChains == 2

-----------------------------------------------------------------------------
(* Strings *)

DOT == "."

\* The atoms in the order Python's str comparison gives them.
AtomOrder == <<".", "0", "1", "2", "a", "b", "c", "changed_attributes", "d",
               "self", "x", "y">>

Rank(a) == CHOOSE i \in 1..Len(AtomOrder) : AtomOrder[i] = a

RECURSIVE StrLess(_, _)
StrLess(s, t) ==
    IF s = <<>> THEN t # <<>>
    ELSE IF t = <<>> THEN FALSE
    ELSE IF s[1] = t[1] THEN StrLess(Tail(s), Tail(t))
    ELSE Rank(s[1]) < Rank(t[1])

HasDot(s) == \E i \in 1..Len(s) : s[i] = DOT

\* str.split(".")
RECURSIVE Split(_)
Split(s) ==
    IF ~HasDot(s) THEN <<s>>
    ELSE LET i == CHOOSE j \in 1..Len(s) :
                      s[j] = DOT /\ \A k \in 1..(j - 1) : s[k] # DOT
         IN  <<SubSeq(s, 1, i - 1)>> \o Split(SubSeq(s, i + 1, Len(s)))

\* char_to_join.join(str_lst)
RECURSIVE Join(_, _)
Join(sep, lst) ==
    IF lst = <<>> THEN <<>>
    ELSE IF Len(lst) = 1 THEN lst[1]
    ELSE lst[1] \o sep \o Join(sep, Tail(lst))

join_trimmed_strings(char_to_join, str_lst, num_to_trim) ==
    Join(char_to_join, SubSeq(str_lst, 1, Len(str_lst) - num_to_trim))

\* str(idx) for a list index
Digits == <<"0", "1", "2", "3", "4">>

IdxStr(idx) == <<Digits[idx + 1]>>

\* f"{attribute_key}.{key}"
InnerKey(attribute_key, key) == attribute_key \o <<DOT>> \o key

\* sorted(S) for a set of strings
RECURSIVE Sorted(_)
Sorted(S) ==
    IF S = {} THEN <<>>
    ELSE LET m == CHOOSE s \in S : \A t \in S \ {s} : StrLess(s, t)
         IN  <<m>> \o Sorted(S \ {m})

-----------------------------------------------------------------------------
(* Values and dicts *)

Str(s) == [t |-> "str", s |-> s]

List(l) == [t |-> "list", l |-> l]

Map(kv) == [t |-> "map", kv |-> kv]

IsList(v) == v.t = "list"

IsMap(v) == v.t = "map"

DictKeySet(d) == {d[i][1] : i \in 1..Len(d)}

DictHas(d, k) == \E i \in 1..Len(d) : d[i][1] = k

DictGet(d, k) == d[CHOOSE i \in 1..Len(d) : d[i][1] = k][2]

\* d[k] = v: an existing key keeps its place, a new key goes last
DictPut(d, k, v) ==
    IF DictHas(d, k)
    THEN [i \in 1..Len(d) |-> IF d[i][1] = k THEN <<k, v>> ELSE d[i]]
    ELSE Append(d, <<k, v>>)

\* del d[k]
DictDel(d, k) == SelectSeq(d, LAMBDA e : e[1] # k)

\* d.update(e)
RECURSIVE DictUpdate(_, _)
DictUpdate(d, e) ==
    IF e = <<>> THEN d
    ELSE DictUpdate(DictPut(d, e[1][1], e[1][2]), Tail(e))

\* Python's == on values: dicts compare without regard to order
RECURSIVE PyEq(_, _)
PyEq(v, w) ==
    IF v.t # w.t THEN FALSE
    ELSE IF v.t = "str" THEN v.s = w.s
    ELSE IF v.t = "list"
    THEN Len(v.l) = Len(w.l) /\ \A i \in 1..Len(v.l) : PyEq(v.l[i], w.l[i])
    ELSE IF v.t = "map"
    THEN /\ DictKeySet(v.kv) = DictKeySet(w.kv)
         /\ \A k \in DictKeySet(v.kv) : PyEq(DictGet(v.kv, k), DictGet(w.kv, k))
    ELSE PyEq(Map(v.d), Map(w.d))

DictEq(d, e) == PyEq(Map(d), Map(e))

-----------------------------------------------------------------------------
(* The attribute codec: Block.get_inner_attributes *)

\* The loop with line 184's test left out: no key is deleted.
NoKeyIsEmpty(key) == FALSE

\* line 184: the keys the loop deletes instead of descending into
IsEmptyKey(key) == key = <<>>

\* What one call leaves behind: `out` is the returned dict, `arg` is the
\* attribute_value argument after the call (its empty-string keys deleted).
\* Every inner key is longer than attribute_key, so no round overwrites the
\* entry of attribute_key, which holds the placeholder.
RECURSIVE get_inner_attributes(_, _)
RECURSIVE InnerLoop(_, _, _)

\* The first n rounds of the loop over the iterator: `out` is inner_attributes
\* without the entry of attribute_key, `slots` the placeholder's filled slots,
\* `arg` the items of attribute_value that are kept.
InnerLoop(attribute_key, attribute_value, n) ==
    IF n = 0 THEN [out |-> <<>>, slots |-> <<>>, arg |-> <<>>]
    ELSE
      LET prev == InnerLoop(attribute_key, attribute_value, n - 1)
          key == IF IsList(attribute_value) THEN IdxStr(n - 1)
                 ELSE attribute_value.kv[n][1]
          inner_value == IF IsList(attribute_value) THEN attribute_value.l[n]
                         ELSE attribute_value.kv[n][2]
          inner_key == InnerKey(attribute_key, key)
          rec == get_inner_attributes(inner_key, inner_value)
          merged == DictUpdate(prev.out, rec.out)
          slot == DictGet(merged, inner_key)
      IN  IF ~IsEmptyKey(key)
          THEN [out |-> merged,
                slots |-> IF IsList(attribute_value)
                          THEN Append(prev.slots, slot)
                          ELSE DictPut(prev.slots, key, slot),
                arg |-> IF IsList(attribute_value)
                        THEN Append(prev.arg, rec.arg)
                        ELSE Append(prev.arg, <<key, rec.arg>>)]
          ELSE prev

get_inner_attributes(attribute_key, attribute_value) ==
    IF IsList(attribute_value) \/ IsMap(attribute_value)
    THEN LET n == IF IsList(attribute_value) THEN Len(attribute_value.l)
                  ELSE Len(attribute_value.kv)
             loop == InnerLoop(attribute_key, attribute_value, n)
             placeholder == IF IsList(attribute_value) THEN List(loop.slots)
                            ELSE Map(loop.slots)
         IN  [out |-> DictUpdate(<<<<attribute_key, placeholder>>>>, loop.out),
              arg |-> IF IsList(attribute_value) THEN List(loop.arg)
                      ELSE Map(loop.arg)]
    ELSE [out |-> <<<<attribute_key, attribute_value>>>>, arg |-> attribute_value]

-----------------------------------------------------------------------------
(* Collaborators' names: CustomAttributes, BlockType *)

BLOCK_NAME == <<"block_name_">>

BLOCK_TYPE == <<"block_type_">>

FILE_PATH == <<"file_path_">>

CONFIG == <<"config_">>

LABEL == <<"label_">>

ID == <<"id_">>

SOURCE == <<"source_">>

HASH == <<"hash">>

RENDERING_BREADCRUMBS == <<"rendering_breadcrumbs_">>

RESOURCE_TYPE == <<"resource_type">>

MODULE_DEPENDENCY == <<"module_dependency_">>

MODULE_DEPENDENCY_NUM == <<"module_dependency_num_">>

DATA == <<"data">>

\* The hash of a dict, modelled as an injective function of the dict.
calculate_hash(data) == [t |-> "hash", d |-> data]

-----------------------------------------------------------------------------
(* The constructor's scalar arguments *)

name == <<"b1">>

path == <<"main", ".", "tf">>

id == <<"aws_s3_bucket", ".", "b1">>

source == <<"Terraform">>

\* Block sets neither module_dependency nor module_dependency_num.
HasModuleDependency == FALSE

module_dependency == Str(<<>>)

module_dependency_num == Str(<<>>)

-----------------------------------------------------------------------------
(* Construction *)

\* The test of lines 44-46 without its list half.
NeedsExtractionMapsOnly(attribute_value) == IsMap(attribute_value)

NeedsExtraction(attribute_value) ==
    \/ IsMap(attribute_value)
    \/ /\ IsList(attribute_value)
       /\ Len(attribute_value.l) > 0
       /\ IsMap(attribute_value.l[1])

\* The first n rounds of _extract_inner_attributes' loop over attrs:
\* `to_add` is attributes_to_add, `attrs` is self.attributes with the
\* deletions get_inner_attributes made in its values.
RECURSIVE ExtractLoop(_, _)
ExtractLoop(attrs, n) ==
    IF n = 0 THEN [to_add |-> <<>>, attrs |-> attrs]
    ELSE LET prev == ExtractLoop(attrs, n - 1)
             attribute_key == attrs[n][1]
             attribute_value == attrs[n][2]
             inner == get_inner_attributes(attribute_key, attribute_value)
         IN  IF NeedsExtraction(attribute_value)
             THEN [to_add |-> DictUpdate(prev.to_add, inner.out),
                   attrs |-> DictPut(prev.attrs, attribute_key, inner.arg)]
             ELSE prev

extract_inner_attributes(attrs) == ExtractLoop(attrs, Len(attrs))

\* self.attributes after __init__
InitAttributes(attrs) ==
    LET e == extract_inner_attributes(attrs)
    IN  DictUpdate(e.attrs, e.to_add)

-----------------------------------------------------------------------------
(* update_attribute *)

BreadcrumbMetadata(vertex_id, attribute_key) ==
    [vertex_id |-> vertex_id, attribute_key |-> attribute_key]

\* Line 147 without its test: every call appends.
AlwaysAddBreadcrumbs(change_origin_id, previous_breadcrumbs, attribute_at_dest) == TRUE

should_add_previous_breadcrumbs(change_origin_id, previous_breadcrumbs, attribute_at_dest) ==
    \/ previous_breadcrumbs = <<>>
    \/ previous_breadcrumbs[Len(previous_breadcrumbs)].vertex_id # change_origin_id

should_set_changed_attributes(change_origin_id, attribute_at_dest) == TRUE

\* lines 122-124: the numbered attributes of a list value
RECURSIVE SetNumbered(_, _, _, _)
SetNumbered(attrs, attribute_key, attribute_value, n) ==
    IF n = 0 THEN attrs
    ELSE DictPut(SetNumbered(attrs, attribute_key, attribute_value, n - 1),
                 InnerKey(attribute_key, IdxStr(n - 1)), attribute_value.l[n])

\* Line 137 without its return: the walk never stops early.
NeverStopsWalk(transform_step, end_key_part) == FALSE

\* line 137
StopsWalk(transform_step, end_key_part) ==
    transform_step /\ end_key_part \in {<<"1">>, <<"2">>}

\* lines 132-142 from round i on; st holds attributes and changed_attributes,
\* c is the reference to previous_breadcrumbs.
RECURSIVE Walk(_, _, _, _, _, _, _, _)
Walk(st, parts, i, attribute_value, change_origin_id, c, attribute_at_dest, transform_step) ==
    IF i >= Len(parts) THEN st
    ELSE
      LET key == join_trimmed_strings(<<DOT>>, parts, i)
          end_key_part == parts[Len(parts) - i]
          written == [st EXCEPT !.attributes = DictPut(st.attributes, key, attribute_value)]
          recorded ==
              IF should_set_changed_attributes(change_origin_id, attribute_at_dest)
              THEN [written EXCEPT !.changed = DictPut(written.changed, key, c)]
              ELSE written
      IN  IF HasDot(key)
          THEN IF StopsWalk(transform_step, end_key_part)
               THEN written
               ELSE Walk(recorded, parts, i + 1,
                         Map(<<<<end_key_part, attribute_value>>>>),
                         change_origin_id, c, attribute_at_dest, transform_step)
          ELSE Walk(st, parts, i + 1, attribute_value,
                    change_origin_id, c, attribute_at_dest, transform_step)

\* The node and the caller's lists after update_attribute; c names the list
\* passed as previous_breadcrumbs.
update_attribute(attrs, changed, chs, attribute_key, attribute_value, change_origin_id, c, attribute_at_dest, transform_step) ==
    LET chs1 == IF should_add_previous_breadcrumbs(change_origin_id, chs[c], attribute_at_dest)
                THEN [chs EXCEPT ![c] = Append(@, BreadcrumbMetadata(change_origin_id,
                                                                     attribute_at_dest))]
                ELSE chs
        attrs1 == IF IsList(attribute_value)
                  THEN SetNumbered(attrs, attribute_key, attribute_value,
                                   Len(attribute_value.l))
                  ELSE attrs
        attribute_key_parts == Split(attribute_key)
        st == IF Len(attribute_key_parts) = 1
              THEN [attributes |-> DictPut(attrs1, attribute_key, attribute_value),
                    changed |-> IF should_set_changed_attributes(change_origin_id,
                                                                 attribute_at_dest)
                                THEN DictPut(changed, attribute_key, c)
                                ELSE changed]
              ELSE Walk([attributes |-> attrs1, changed |-> changed],
                        attribute_key_parts, 0, attribute_value,
                        change_origin_id, c, attribute_at_dest, transform_step)
    IN  [attributes |-> st.attributes, changed |-> st.changed, chains |-> chs1]

-----------------------------------------------------------------------------
(* get_attribute_dict *)

\* __str__
Label(bt) == bt \o <<": ">> \o name

get_base_attributes(bt, cfg) ==
    << <<BLOCK_NAME, Str(name)>>,
       <<BLOCK_TYPE, Str(bt)>>,
       <<FILE_PATH, Str(path)>>,
       <<CONFIG, cfg>>,
       <<LABEL, Str(Label(bt))>>,
       <<ID, Str(id)>>,
       <<SOURCE, Str(source)>> >>

\* lines 93-94
Unwrap(attribute_value) ==
    IF IsList(attribute_value) /\ Len(attribute_value.l) = 1
    THEN attribute_value.l[1]
    ELSE attribute_value

\* The first n rounds of get_origin_attributes' loop: `base` is
\* base_attributes, `attrs` is self.attributes with the deletions
\* get_inner_attributes made in its values.
RECURSIVE OriginLoop(_, _, _)
OriginLoop(base, attrs, n) ==
    IF n = 0 THEN [base |-> base, attrs |-> attrs]
    ELSE
      LET prev == OriginLoop(base, attrs, n - 1)
          attribute_key == attrs[n][1]
          stored == DictGet(prev.attrs, attribute_key)
          attribute_value == Unwrap(stored)
          inner == get_inner_attributes(attribute_key, attribute_value)
          kept == IF IsList(stored) /\ Len(stored.l) = 1
                  THEN List(<<inner.arg>>)
                  ELSE inner.arg
      IN  IF attribute_key = <<"self">>
          THEN [prev EXCEPT !.base = DictPut(prev.base, <<"self_">>, attribute_value)]
          ELSE IF IsList(attribute_value) \/ IsMap(attribute_value)
          THEN [base |-> DictUpdate(prev.base, inner.out),
                attrs |-> DictPut(prev.attrs, attribute_key, kept)]
          ELSE [prev EXCEPT !.base = DictPut(prev.base, attribute_key, attribute_value)]

get_origin_attributes(base, attrs) == OriginLoop(base, attrs, Len(attrs))

\* lines 66-68
AddModuleDependency(base) ==
    IF HasModuleDependency
    THEN DictPut(DictPut(base, MODULE_DEPENDENCY, module_dependency),
                 MODULE_DEPENDENCY_NUM, module_dependency_num)
    ELSE base

\* lines 70-72
AddChangedAttributes(base, changed) ==
    IF changed # <<>>
    THEN DictPut(base, <<"changed_attributes">>,
                 List([i \in 1..Len(changed) |-> Str(Sorted(DictKeySet(changed))[i])]))
    ELSE base

\* lines 74-76
AddBreadcrumbs(base, crumbs) ==
    IF crumbs # <<>>
    THEN LET keys == Sorted(DictKeySet(crumbs))
         IN  DictPut(base, RENDERING_BREADCRUMBS,
                     Map([i \in 1..Len(keys) |-> <<keys[i], DictGet(crumbs, keys[i])>>]))
    ELSE base

\* lines 78-79
AddHash(base, add_hash) ==
    IF add_hash THEN DictPut(base, HASH, calculate_hash(base)) ELSE base

\* lines 81-82
AddResourceType(base, bt) ==
    IF bt = DATA
    THEN DictPut(base, RESOURCE_TYPE, Str(<<"data", DOT>> \o Split(id)[1]))
    ELSE base

\* Lines 84-86 left out: the key added for the hash stays.
KeepChangedAttributes(base) == base

\* lines 84-86
RemoveChangedAttributes(base) ==
    IF DictHas(base, <<"changed_attributes">>)
    THEN DictDel(base, <<"changed_attributes">>)
    ELSE base

\* The dict that line 79 hashes.
HashedDict(bt, cfg, attrs, changed, crumbs) ==
    AddBreadcrumbs(
        AddChangedAttributes(
            AddModuleDependency(get_origin_attributes(get_base_attributes(bt, cfg), attrs).base),
            changed),
        crumbs)

\* `d` is the returned dict, `attrs` is self.attributes after the call.
get_attribute_dict(bt, cfg, attrs, changed, crumbs, add_hash) ==
    [d |-> RemoveChangedAttributes(
               AddResourceType(
                   AddHash(HashedDict(bt, cfg, attrs, changed, crumbs), add_hash),
                   bt)),
     attrs |-> get_origin_attributes(get_base_attributes(bt, cfg), attrs).attrs]

\* attributes_dict.get(CustomAttributes.HASH, "")
get_hash(bt, cfg, attrs, changed, crumbs) ==
    LET attributes_dict == get_attribute_dict(bt, cfg, attrs, changed, crumbs, TRUE).d
    IN  IF DictHas(attributes_dict, HASH) THEN DictGet(attributes_dict, HASH)
        ELSE Str(<<>>)

-----------------------------------------------------------------------------
(* Inputs *)

X == Str(<<"x">>)

Y == Str(<<"y">>)

Scalars == {X, Y}

\* Map keys: the empty string, a plain key, a key that holds a dot.
MapKeys == {<<>>, <<"b">>, <<"b", DOT, "b">>}

PlainKeys == {<<>>, <<"b">>}

ListsOver(V) == UNION {[1..n -> V] : n \in 0..MaxListLen}

\* Dicts of at most MaxMapLen entries, in every insertion order.
DictsOver(K, V) ==
    {d \in UNION {[1..n -> K \X V] : n \in 0..MaxMapLen} :
        \A i, j \in 1..Len(d) : i # j => d[i][1] # d[j][1]}

ContainersOver(K, V) ==
    {List(l) : l \in ListsOver(V)} \cup {Map(kv) : kv \in DictsOver(K, V)}

\* Nested values of depth at most 2 with map keys K and scalars S.
NestedOver(K, S) == S \cup ContainersOver(K, S \cup ContainersOver(K, S))

\* The nested values the codec and the constructor are run on: one scalar
\* under all three map keys, the scalars S under the two dot-free keys.
NestedValues(S) == NestedOver(MapKeys, {X}) \cup NestedOver(PlainKeys, S)

RootKeys == {<<"a">>, <<"a", DOT, "b">>}

\* A second attribute beside the nested one.
SecondAttributes ==
    { <<<<"a", DOT, "b">>, Y>>,
      <<<<"k">>, List(<<>>)>> }

\* The attributes argument of the constructor, for the construction on its
\* own: the nested value v under "a", alone or beside a second attribute.
WideAttributes(v) ==
    {<<<<<<"a">>, v>>>>}
    \cup {<<<<<<"a">>, v>>, e>> : e \in SecondAttributes}
    \cup {<<e, <<<<"a">>, v>>>> : e \in SecondAttributes}

\* The attributes argument of the constructor, for the node's life.
InitialAttributes ==
    { <<>>,
      << <<<<"a">>, Map(<< <<<<"b">>, Map(<< <<<<"c">>, X>>, <<<<"d">>, Y>> >>)>> >>)>> >>,
      << <<<<"changed_attributes">>, List(<<Str(<<"a">>), Str(<<"b">>)>>)>>,
         <<<<"a">>, X>>,
         <<<<"b">>, X>> >>,
      << <<<<"self">>, X>>,
         <<<<"a">>, List(<<Map(<< <<<<>>, X>>, <<<<"b">>, Y>> >>)>>)>> >> }

Configs == {Map(<< <<<<"a">>, X>> >>)}

BlockTypes == {<<"resource">>, DATA}

Paths == { <<"a">>, <<"b">>, <<"a", DOT, "b">>, <<"a", DOT, "b", DOT, "c">>,
           <<"a", DOT, "b", DOT, "1">> }

UpdateValues == { X, Y, List(<<X, Y>>), Map(<< <<<<>>, X>>, <<<<"b">>, Y>> >>) }

CoreAttributes ==
    { <<>>,
      << <<<<"changed_attributes">>, List(<<Str(<<"a">>), Str(<<"b">>)>>)>>,
         <<<<"a">>, X>> >> }

CorePaths == { <<"a">>, <<"a", DOT, "b", DOT, "1", DOT, "c">> }

CoreValues == { X, List(<<X, Y>>) }

Origins == {7, 8}

Dests == {<<"v">>}

ChainIds == 1..NumChains

-----------------------------------------------------------------------------
(* The state machine *)

None == [kind |-> "none"]

NoCall ==
    [op |-> "none", key |-> <<>>, value |-> Str(<<>>), origin |-> 0, chain |-> 0,
     prev |-> <<>>, dest |-> <<>>, transform |-> FALSE, add_hash |-> FALSE]

FlIdle == [key |-> <<>>, value |-> Str(<<>>), done |-> FALSE, out |-> <<>>, arg |-> Str(<<>>)]

InitNode(attrs) ==
    /\ pc = "new"
    /\ block_type \in BlockTypes
    /\ config \in Configs
    /\ attributes \in attrs
    /\ changed_attributes = <<>>
    /\ breadcrumbs = <<>>
    /\ chains = [c \in ChainIds |-> <<>>]
    /\ ret = None
    /\ last = NoCall
    /\ steps = 0
    /\ fl = FlIdle

Init == InitNode(InitialAttributes)

\* Block.__init__
Construct ==
    /\ pc = "new"
    /\ pc' = "ready"
    /\ attributes' = InitAttributes(attributes)
    /\ last' = [NoCall EXCEPT !.op = "init", !.value = Map(attributes)]
    /\ UNCHANGED <<block_type, config, changed_attributes, breadcrumbs, chains, ret,
                   steps, fl>>

\* Block.update_attribute, called with these arguments
UpdateAttributeWith(attribute_key, attribute_value, change_origin_id, c, attribute_at_dest, transform_step) ==
    LET r == update_attribute(attributes, changed_attributes, chains,
                              attribute_key, attribute_value, change_origin_id,
                              c, attribute_at_dest, transform_step)
    IN  /\ pc = "ready"
        /\ steps < MaxSteps
        /\ attributes' = r.attributes
        /\ changed_attributes' = r.changed
        /\ chains' = r.chains
        /\ last' = [op |-> "update", key |-> attribute_key,
                    value |-> attribute_value, origin |-> change_origin_id,
                    chain |-> c, prev |-> chains[c], dest |-> attribute_at_dest,
                    transform |-> transform_step, add_hash |-> FALSE]
        /\ ret' = None
        /\ steps' = steps + 1
        /\ UNCHANGED <<pc, block_type, config, breadcrumbs, fl>>

UpdateAttribute ==
    \E attribute_key \in Paths, attribute_value \in UpdateValues,
       change_origin_id \in Origins, c \in ChainIds,
       attribute_at_dest \in Dests, transform_step \in BOOLEAN :
       UpdateAttributeWith(attribute_key, attribute_value, change_origin_id, c,
                           attribute_at_dest, transform_step)

\* Block.get_attribute_dict
GetAttributeDict ==
    /\ pc = "ready"
    /\ steps < MaxSteps
    /\ \E add_hash \in BOOLEAN :
          LET r == get_attribute_dict(block_type, config, attributes,
                                      changed_attributes, breadcrumbs, add_hash)
          IN  /\ ret' = [kind |-> "dict", d |-> r.d]
              /\ attributes' = r.attrs
              /\ last' = [NoCall EXCEPT !.op = "export", !.add_hash = add_hash]
    /\ steps' = steps + 1
    /\ UNCHANGED <<pc, block_type, config, changed_attributes, breadcrumbs, chains, fl>>

\* Block.get_hash
GetHash ==
    /\ pc = "ready"
    /\ steps < MaxSteps
    /\ ret' = [kind |-> "hash",
               v |-> get_hash(block_type, config, attributes, changed_attributes,
                              breadcrumbs)]
    /\ attributes' = get_attribute_dict(block_type, config, attributes,
                                        changed_attributes, breadcrumbs, TRUE).attrs
    /\ last' = [NoCall EXCEPT !.op = "get_hash", !.add_hash = TRUE]
    /\ steps' = steps + 1
    /\ UNCHANGED <<pc, block_type, config, changed_attributes, breadcrumbs, chains, fl>>

Next == Construct \/ UpdateAttribute \/ GetAttributeDict \/ GetHash

Spec == Init /\ [][Next]_vars

\* The node's life over fewer paths and values, and longer chains.
CoreInit == InitNode(CoreAttributes)

UpdateAttributeCore ==
    \E attribute_key \in CorePaths, attribute_value \in CoreValues,
       change_origin_id \in Origins, c \in ChainIds,
       attribute_at_dest \in Dests, transform_step \in BOOLEAN :
       UpdateAttributeWith(attribute_key, attribute_value, change_origin_id, c,
                           attribute_at_dest, transform_step)

CoreNext == Construct \/ UpdateAttributeCore \/ GetAttributeDict \/ GetHash

CoreSpec == CoreInit /\ [][CoreNext]_vars

\* Construction on its own, over every nested value of depth at most 2.
ConstructInit == \E v \in NestedValues(Scalars) : InitNode(WideAttributes(v))

ConstructSpec == ConstructInit /\ [][Construct]_vars

\* The codec on its own: get_inner_attributes on a root key and a nested value.
FlattenInit ==
    /\ pc = "codec"
    /\ block_type = <<"resource">>
    /\ config = Map(<<>>)
    /\ attributes = <<>>
    /\ changed_attributes = <<>>
    /\ breadcrumbs = <<>>
    /\ chains = [c \in ChainIds |-> <<>>]
    /\ ret = None
    /\ last = NoCall
    /\ steps = 0
    /\ fl \in {[FlIdle EXCEPT !.key = k, !.value = v, !.arg = v] :
                  k \in RootKeys, v \in NestedValues(Scalars)}

Flatten ==
    /\ pc = "codec"
    /\ ~fl.done
    /\ LET r == get_inner_attributes(fl.key, fl.value)
       IN  fl' = [fl EXCEPT !.done = TRUE, !.out = r.out, !.arg = r.arg]
    /\ UNCHANGED <<pc, block_type, config, attributes, changed_attributes, breadcrumbs,
                   chains, ret, last, steps>>

FlattenSpec == FlattenInit /\ [][Flatten]_vars

-----------------------------------------------------------------------------
(* What the claims speak of, stated without the codec *)

\* v with every map entry whose key is the empty string removed, at every depth
RECURSIVE Strip(_)
Strip(v) ==
    IF IsList(v) THEN List([i \in 1..Len(v.l) |-> Strip(v.l[i])])
    ELSE IF IsMap(v)
    THEN LET kept == SelectSeq(v.kv, LAMBDA e : e[1] # <<>>)
         IN  Map([i \in 1..Len(kept) |-> <<kept[i][1], Strip(kept[i][2])>>])
    ELSE v

\* The items of a container as <<segment, sub-value>> pairs
Items(v) ==
    IF IsList(v) THEN {<<IdxStr(i - 1), v.l[i]>> : i \in 1..Len(v.l)}
    ELSE IF IsMap(v) THEN {<<v.kv[i][1], v.kv[i][2]>> : i \in 1..Len(v.kv)}
    ELSE {}

\* Every <<dot-path, sub-value>> inside v: map keys and sequence indices
RECURSIVE PathsOf(_)
PathsOf(v) ==
    UNION { {<<it[1], it[2]>>}
            \cup {<<InnerKey(it[1], q[1]), q[2]>> : q \in PathsOf(it[2])}
          : it \in Items(v) }

\* Whether the constructor flattens the attribute value v
IsFlattened(v) == IsMap(v) \/ (IsList(v) /\ v.l # <<>> /\ IsMap(v.l[1]))

\* Every <<key, value>> the flattening of attribute K = v is to produce
Produced(K, v) ==
    {<<K, Strip(v)>>} \cup {<<InnerKey(K, q[1]), q[2]>> : q \in PathsOf(Strip(v))}

ProducedBy(attrs) ==
    UNION {Produced(attrs[i][1], attrs[i][2]) :
              i \in {j \in 1..Len(attrs) : IsFlattened(attrs[j][2])}}

Holds(d, k, v) == DictHas(d, k) /\ DictGet(d, k) = v

-----------------------------------------------------------------------------
(* C10 *)

\* The keys flatten(k, v) is to return: k and one key per dot-path inside v.
\* An empty sequence has no path inside it, so it adds no indexed key.
PathKeys(k, v) == {k} \cup {InnerKey(k, q[1]) : q \in PathsOf(Strip(v))}

\* C10: for every nested value v (scalars, maps, sequences, depth at most 2)
\* and every root key k, the value get_inner_attributes(k, v) stores under k
\* is v with every empty-string-keyed map entry removed at every depth; the
\* keys returned are k and the dot-paths inside that value, so an empty
\* sequence is stored as an empty sequence and no indexed key 'k....i' is
\* produced for it.
C10_FlattenRoundTrip ==
    fl.done =>
        /\ Holds(fl.out, fl.key, Strip(fl.value))
        /\ DictKeySet(fl.out) = PathKeys(fl.key, fl.value)

\* A flattened value that loses an empty-string key below the top level and
\* holds an empty sequence.
C10_Witness ==
    /\ fl.done
    /\ fl.value = List(<<Map(<< <<<<>>, X>>, <<<<"b">>, Y>> >>), List(<<>>)>>)
    /\ Holds(fl.out, fl.key, List(<<Map(<< <<<<"b">>, Y>> >>), List(<<>>)>>))
    /\ Holds(fl.out, InnerKey(fl.key, <<"1">>), List(<<>>))
    /\ ~DictHas(fl.out, InnerKey(InnerKey(fl.key, <<"1">>), <<"0">>))
    /\ Holds(fl.out, InnerKey(InnerKey(fl.key, <<"0">>), <<"b">>), Y)

-----------------------------------------------------------------------------
(* C7 *)

Constructed == pc = "ready" /\ last.op = "init"

Untouched(v) == v.t = "str" \/ v = List(<<>>)

\* C7 as claimed: after construction every flattened attribute K holds its
\* reconstructed value, every dot-path p inside it has a key 'K.p' holding
\* the sub-value at p, and every scalar or empty-sequence attribute keeps its
\* value; no other key is added.
C7_AsClaimed ==
    Constructed =>
        LET input == last.value.kv
        IN  /\ \A e \in ProducedBy(input) : Holds(attributes, e[1], e[2])
            /\ \A i \in 1..Len(input) :
                   Untouched(input[i][2]) => Holds(attributes, input[i][1], input[i][2])
            /\ DictKeySet(attributes) =
                   DictKeySet(input) \cup {e[1] : e \in ProducedBy(input)}

\* Whether every path that spells the key k is to store the same value
Unambiguous(prod, k) == \A e, f \in prod : (e[1] = k /\ f[1] = k) => e[2] = f[2]

\* C7 as amended: the same, for the flattened keys that are spelled by one
\* path only (or by paths that agree on the value), and for the scalar and
\* empty-sequence attributes whose key no flattened path spells.
C7_Construction ==
    Constructed =>
        LET input == last.value.kv
            prod == ProducedBy(input)
        IN  /\ \A e \in prod : Unambiguous(prod, e[1]) => Holds(attributes, e[1], e[2])
            /\ \A i \in 1..Len(input) :
                   (Untouched(input[i][2]) /\ \A e \in prod : e[1] # input[i][1])
                       => Holds(attributes, input[i][1], input[i][2])
            /\ DictKeySet(attributes) = DictKeySet(input) \cup {e[1] : e \in prod}

\* A sequence of maps flattened beside an empty sequence that stays as it is.
C7_Witness ==
    /\ Constructed
    /\ last.value.kv = << <<<<"a">>, List(<<Map(<< <<<<>>, X>>, <<<<"b">>, Y>> >>), X>>)>>,
                          <<<<"k">>, List(<<>>)>> >>
    /\ Holds(attributes, <<"a", DOT, "0", DOT, "b">>, Y)
    /\ Holds(attributes, <<"a", DOT, "1">>, X)
    /\ Holds(attributes, <<"k">>, List(<<>>))

-----------------------------------------------------------------------------
(* C1 *)

Missing == [t |-> "missing"]

\* The value inside v at the sub-path segs, or Missing
RECURSIVE Lookup(_, _)
Lookup(v, segs) ==
    IF segs = <<>> THEN v
    ELSE LET found == {it \in Items(v) : it[1] = segs[1]}
         IN  IF found = {} THEN Missing
             ELSE Lookup((CHOOSE it \in found : TRUE)[2], Tail(segs))

PrefixConsistent(attrs) ==
    \A i \in 1..Len(attrs) :
        LET parts == Split(attrs[i][1])
        IN  \A j \in 1..(Len(parts) - 1) :
                LET prefix == Join(<<DOT>>, SubSeq(parts, 1, j))
                    found == IF DictHas(attrs, prefix)
                             THEN Lookup(DictGet(attrs, prefix),
                                         SubSeq(parts, j + 1, Len(parts)))
                             ELSE Missing
                IN  found # Missing /\ PyEq(found, attrs[i][2])

\* C1: after construction and update_attribute calls the attributes dict is
\* prefix-consistent: with a key 'a.b.c' the keys 'a.b' and 'a' are present,
\* and the value under each prefix holds, at the remaining sub-path, the
\* value stored under the deeper key.  (Stated for the states reached by the
\* construction and at most one update_attribute call.)
C1_PrefixConsistent ==
    (pc = "ready" /\ last.op \in {"init", "update"} /\ steps <= 1)
        => PrefixConsistent(attributes)

-----------------------------------------------------------------------------
(* C2 *)

Crumb(change_origin_id, attribute_at_dest) ==
    [t |-> "crumb", vertex_id |-> change_origin_id, attribute_key |-> attribute_at_dest]

\* C2: update_attribute(path, scalar, origin, [], dest) followed by
\* get_attribute_dict returns a dict whose breadcrumbs entry for path is
\* [(origin, dest)] and whose entry for path is the scalar.
C2_UpdateThenExport ==
    [][ ( /\ last.op = "update"
          /\ last.prev = <<>>
          /\ last.value.t = "str"
          /\ last'.op = "export" )
        => /\ DictHas(ret'.d, RENDERING_BREADCRUMBS)
           /\ Holds(DictGet(ret'.d, RENDERING_BREADCRUMBS).kv, last.key,
                    List(<<Crumb(last.origin, last.dest)>>))
           /\ Holds(ret'.d, last.key, last.value) ]_vars

-----------------------------------------------------------------------------
(* C3 *)

NoRepeatedOrigin(chain) ==
    \A i \in 1..(Len(chain) - 1) : chain[i].vertex_id # chain[i + 1].vertex_id

\* C3: update_attribute appends exactly one record (origin, dest) to the list
\* it is given when the list is empty or its last entry has another origin,
\* and nothing when the last entry has the same origin; no list of the
\* caller, and no list recorded in changed_attributes, holds two consecutive
\* entries of one origin.
C3_BreadcrumbDedup ==
    [][ last'.op = "update"
        => LET c == last'.chain
               before == chains[c]
               same == before # <<>> /\ before[Len(before)].vertex_id = last'.origin
           IN  /\ same => chains'[c] = before
               /\ ~same => chains'[c] =
                              Append(before, [vertex_id |-> last'.origin,
                                              attribute_key |-> last'.dest])
               /\ \A o \in ChainIds \ {c} : chains'[o] = chains[o]
               /\ \A o \in ChainIds : NoRepeatedOrigin(chains'[o])
               /\ \A i \in 1..Len(changed_attributes') :
                      /\ changed_attributes'[i][2] \in ChainIds
                      /\ NoRepeatedOrigin(chains'[changed_attributes'[i][2]]) ]_vars

\* A call that found its own origin last in the list and added nothing.
C3_Witness ==
    /\ last.op = "update"
    /\ last.prev # <<>>
    /\ chains[last.chain] = last.prev
    /\ DictHas(changed_attributes, last.key)
    /\ chains[DictGet(changed_attributes, last.key)] = last.prev

-----------------------------------------------------------------------------
(* C4 *)

\* C4: the hash, an injective function of the hashed dict: a node with a
\* non-empty changed_attributes has another hash than a node with the same
\* metadata, attributes and breadcrumbs and an empty changed_attributes.
\* (That two nodes built alike hash alike is the operators' determinism.)
C4_ChangedAltersHash ==
    (pc = "ready" /\ changed_attributes # <<>>)
        => ~PyEq(calculate_hash(HashedDict(block_type, config, attributes,
                                           changed_attributes, breadcrumbs)),
                 calculate_hash(HashedDict(block_type, config, attributes,
                                           <<>>, breadcrumbs)))

-----------------------------------------------------------------------------
(* C5 *)

\* C5: get_attribute_dict leaves attributes (nested values included),
\* changed_attributes, breadcrumbs and config as they were, and two
\* consecutive calls with the same add_hash return equal dicts.
C5_ExportIsPure ==
    [][ last'.op = "export"
        => /\ attributes' = attributes
           /\ changed_attributes' = changed_attributes
           /\ breadcrumbs' = breadcrumbs
           /\ config' = config
           /\ (last.op = "export" /\ last.add_hash = last'.add_hash)
                  => DictEq(ret.d, ret'.d) ]_vars

-----------------------------------------------------------------------------
(* C6 *)

\* C6: in every state, with add_hash true or false, the dict
\* get_attribute_dict returns has no key 'changed_attributes'.
C6_NoChangedKeyExported ==
    ret.kind = "dict" => ~DictHas(ret.d, <<"changed_attributes">>)

\* An export with hash of a node with recorded changes: the hashed dict holds
\* the key, the returned dict does not.
C6_Witness ==
    /\ ret.kind = "dict"
    /\ changed_attributes # <<>>
    /\ DictHas(ret.d, HASH)
    /\ DictHas(DictGet(ret.d, HASH).d, <<"changed_attributes">>)
    /\ ~DictHas(ret.d, <<"changed_attributes">>)

-----------------------------------------------------------------------------
(* C8 *)

\* C8: update_attribute on a dotted path P.c keeps every entry P.d (d # c)
\* that was there, and the container under P holds d with that value beside
\* the new entry c.
C8_SiblingsKept ==
    [][ (last'.op = "update" /\ Len(Split(last'.key)) > 1)
        => LET parts == Split(last'.key)
               P == SubSeq(parts, 1, Len(parts) - 1)
               Pkey == Join(<<DOT>>, P)
               c == parts[Len(parts)]
           IN  \A i \in 1..Len(attributes) :
                   LET sib == Split(attributes[i][1])
                       d == sib[Len(sib)]
                   IN  (Len(sib) = Len(parts) /\ SubSeq(sib, 1, Len(sib) - 1) = P /\ d # c)
                       => /\ Holds(attributes', attributes[i][1], attributes[i][2])
                          /\ DictHas(attributes', Pkey)
                          /\ Lookup(DictGet(attributes', Pkey), <<d>>) = attributes[i][2]
                          /\ Lookup(DictGet(attributes', Pkey), <<c>>) = last'.value ]_vars

-----------------------------------------------------------------------------
(* C9 *)

SameEntry(d, e, k) ==
    /\ DictHas(d, k) <=> DictHas(e, k)
    /\ DictHas(d, k) => DictGet(d, k) = DictGet(e, k)

\* The lengths of the prefixes of parts that end in "1" or "2" and hold a dot
StopPoints(parts) == {m \in 2..Len(parts) : parts[m] \in {<<"1">>, <<"2">>}}

Longest(S) == CHOOSE m \in S : \A n \in S : n <= m

\* C9: with transform_step on a dotted path the walk stops at the first
\* prefix (the longest) that ends in the segment "1" or "2": no attribute
\* entry of a shorter prefix is created or changed, and no changed_attributes
\* entry is recorded for that prefix or a shorter one.
C9_TransformStops ==
    [][ ( /\ last'.op = "update"
          /\ last'.transform
          /\ StopPoints(Split(last'.key)) # {} )
        => LET parts == Split(last'.key)
               m == Longest(StopPoints(parts))
               Prefix(j) == Join(<<DOT>>, SubSeq(parts, 1, j))
           IN  /\ \A j \in 1..(m - 1) : SameEntry(attributes, attributes', Prefix(j))
               /\ \A j \in 1..m : SameEntry(changed_attributes, changed_attributes',
                                            Prefix(j)) ]_vars

\* A transform-step call on 'a.b.1.c' that wrote 'a.b.1.c' and 'a.b.1', recorded
\* the change of 'a.b.1.c' only, and wrote no 'a.b'.
C9_Witness ==
    /\ last.op = "update"
    /\ last.transform
    /\ last.key = <<"a", DOT, "b", DOT, "1", DOT, "c">>
    /\ Holds(attributes, last.key, last.value)
    /\ DictHas(changed_attributes, last.key)
    /\ Holds(attributes, <<"a", DOT, "b", DOT, "1">>, Map(<< <<<<"c">>, last.value>> >>))
    /\ ~DictHas(changed_attributes, <<"a", DOT, "b", DOT, "1">>)
    /\ ~DictHas(attributes, <<"a", DOT, "b">>)

====
